---------------------------- MODULE Spec2Model ----------------------------
(***************************************************************************)
(* Scattergun: the entropy acquisition loops of quantistool.c (Quantis     *)
(* hardware generator) and seventool.c (rdrand/rdseed instructions).       *)
(*                                                                         *)
(* One run of main() of either tool is a sequential program whose position *)
(* is pc; the signal handler is the only other flow of control and may run *)
(* between any two steps of main once its signal has been installed.       *)
(* Options that only change logging (-d, -v, -i) are not modelled.         *)
(***************************************************************************)
EXTENDS Integers, Sequences, FiniteSets, TLC

(* ------------------------------ bounds -------------------------------- *)
MaxArgs == 2        \* options on the command line
MaxUnit == 1        \* largest UNIT given to -u / -p
MaxDetected == 2    \* largest QuantisCount() result
MaxStatus == 2      \* largest QuantisGetModulesStatus() bitmask
MaxOpens == 2       \* cap on the counter opens
MaxReads == 3       \* cap on the counter reads
MaxTries == 3       \* cap on the counter tries
MaxWord == 2        \* random words the CPU can deliver are 1..MaxWord
MaxReports == 2     \* cap on the statistics lines printed on SIGHUP

(* ------------------------ program constants --------------------------- *)
QUANTIS_SUCCESS == 0
QUANTIS_MAX_READ_SIZE == 16 * 1024 * 1024
DefaultSize == 512
SizeofWord == 4
TYPES == << "PCI", "USB" >>
DEADCODE == "0xDEADC0DE"
CAFEBEEF == "0xCAFEBEEF"
ZEROWORD == "0x00000000"

Signals == { "SIGPIPE", "SIGHUP", "SIGINT" }
\* values strtoul() can hand to -r, each with or without trailing garbage
RValues == { 0, 1, 4096, QUANTIS_MAX_READ_SIZE, QUANTIS_MAX_READ_SIZE + 1 }
\* the words rdrand/rdseed deliver with carry set
Words == { ToString(w) : w \in 1..MaxWord }

VARIABLES
    tool,       \* which program runs: "quantistool" or "seventool"
    pc,         \* position of main()
    argn,       \* options of argv that getopt has yet to return
    opt,        \* last value returned by getopt ("EOF" is -1)
    xc, error, daemonize, type, unit, check, size, path, mode,
    buffer,     \* the malloc'ed read buffer: "NULL", "allocated", "freed"
    contents,   \* what the buffer holds: <<unit id, byte count>>, or <<0, 0>>
    fp,         \* the sink stream: "stdout", "file", "NULL"
    handle,     \* the Quantis handle: "NULL", "open", "closed",
                \* "closed twice"
    rc, written, opens, reads, total, tries, word, carry,
    done, report,   \* the two flags set by the signal handler
    installed,  \* signals whose disposition is handler()
    sink,       \* units fwrite returned 1 for, each <<unit, byte count>>
    produced,   \* units the source delivered with success, in order
    did,        \* kinds of source/sink calls made so far
    brk,        \* the break statement that last left a loop of main()
    emitted,    \* statistics lines printed because of report
    fclosed, freed,  \* calls of fclose(fp) and free(buffer)
    misses,     \* sampling attempts the CPU answered with carry clear
    live,       \* handles the Quantis library holds open
    errno,      \* the error number nanosleep() left behind
    unserved,   \* 1 from a SIGHUP delivery until the next statistics line
    bus         \* the devices the Quantis library reports to query()

vars == << tool, pc, argn, opt, xc, error, daemonize, type, unit, check, size,
           path, mode, buffer, contents, fp, handle, rc, written, opens, reads,
           total, tries, word, carry, done, report, installed, sink, produced,
           did, brk, emitted, fclosed, freed, misses, live, errno, unserved,
           bus >>

\* variables only the option parser writes
optvars == << error, daemonize, type, unit, check, size, path, mode >>
\* variables only the acquisition loops write
loopvars == << contents, handle, written, opens, reads, total, tries, word,
               carry, sink, produced, did, misses, live, errno >>
\* variables only the cleanup code writes
endvars == << fclosed, freed >>

(* ---------------------- the Quantis library's view --------------------- *)
\* One bus: for each type the QuantisCount() result and the modules status
\* of each detected unit (unit jj is status[jj + 1]).
StatusOf(n) == [ 1..(IF n > 0 THEN n ELSE 0) -> 0..MaxStatus ]
TypeViews == UNION { { [ detected |-> n, status |-> s ] : s \in StatusOf(n) } :
                     n \in -1..MaxDetected }
Buses == [ { TYPES[i] : i \in 1..Len(TYPES) } -> TypeViews ]
NoBus == [ t \in { TYPES[i] : i \in 1..Len(TYPES) } |-> [ detected |-> 0, status |-> << >> ] ]


(* ------------------------- quantistool.c: query ------------------------ *)
\* queryUnit without the test of the modules status.
queryUnit_nostatus(want, u, t, jj, status, r) ==
    IF want # t THEN r
    ELSE IF u # jj THEN r
    ELSE 1

\* The body of the inner for loop for unit jj of `type`: the new rc.
queryUnit(want, u, t, jj, status, r) ==
    IF want # t THEN r
    ELSE IF u # jj THEN r
    ELSE IF status = 0 THEN r
    ELSE 1

RECURSIVE queryUnits(_, _, _, _, _, _)
queryUnits(want, u, t, view, jj, r) ==
    IF ~(jj < view.detected) THEN r
    ELSE queryUnits(want, u, t, view, jj + 1,
                    queryUnit(want, u, t, jj, view.status[jj + 1], r))

RECURSIVE queryTypes(_, _, _, _, _)
queryTypes(want, u, b, ii, r) ==
    IF ~(ii <= Len(TYPES)) THEN r
    ELSE IF b[TYPES[ii]].detected <= 0
         THEN queryTypes(want, u, b, ii + 1, r)
         ELSE queryTypes(want, u, b, ii + 1,
                         queryUnits(want, u, TYPES[ii], b[TYPES[ii]], 0, r))

\* query(want, unit) against the devices b: 1 if the device is available.
query(want, u, b) == queryTypes(want, u, b, 1, 0)

(* -------------------------------- Init --------------------------------- *)
\* The initializers of the globals and of the locals of main(), but for
\* the position and the device asked for.
Blank(t) ==
    /\ tool = t
    /\ opt = "none"
    /\ xc = 1
    /\ error = 0
    /\ daemonize = 0
    /\ check = 0
    /\ size = IF t = "quantistool" THEN DefaultSize ELSE SizeofWord
    /\ path = "NULL"
    /\ mode = "FAIL"
    /\ buffer = "NULL"
    /\ contents = << 0, 0 >>
    /\ fp = "stdout"
    /\ handle = "NULL"
    /\ rc = 0
    /\ written = 0
    /\ opens = 0
    /\ reads = 0
    /\ total = 0
    /\ tries = 0
    /\ word = ZEROWORD
    /\ carry = 0
    /\ done = 0
    /\ report = 0
    /\ installed = {}
    /\ sink = << >>
    /\ produced = << >>
    /\ did = {}
    /\ brk = "none"
    /\ emitted = 0
    /\ fclosed = 0
    /\ freed = 0
    /\ misses = 0
    /\ live = 0
    /\ errno = "none"
    /\ unserved = 0

InitOf(t) ==
    /\ Blank(t)
    /\ argn \in 0..MaxArgs
    /\ pc = "getopt"
    /\ type = "USB"
    /\ unit = 0
    /\ bus = NoBus

Init == InitOf("quantistool") \/ InitOf("seventool")

(* ------------------------ quantistool.c: main -------------------------- *)
\* One pass of the getopt loop: the switch on opt, then the test of error.
quantistool_getopt ==
    /\ tool = "quantistool" /\ pc = "getopt"
    /\ \/ /\ argn = 0
          /\ opt' = "EOF"
          /\ pc' = "setup"
          /\ UNCHANGED << argn, xc, optvars >>
       \/ /\ argn > 0
          /\ argn' = argn - 1
          /\ \/ /\ opt' = "D" /\ daemonize' = 1
                /\ UNCHANGED << xc, error, type, unit, check, size, path, mode >>
             \/ /\ opt' = "u" /\ type' = "USB" /\ unit' \in 0..MaxUnit
                /\ UNCHANGED << xc, error, daemonize, check, size, path, mode >>
             \/ /\ opt' = "p" /\ type' = "PCI" /\ unit' \in 0..MaxUnit
                /\ UNCHANGED << xc, error, daemonize, check, size, path, mode >>
             \/ /\ opt' = "c" /\ check' = 1
                /\ UNCHANGED << xc, error, daemonize, type, unit, size, path, mode >>
             \/ /\ opt' = "r"
                /\ \E v \in RValues, clean \in BOOLEAN :
                      /\ size' = v
                      /\ error' = IF ~clean \/ ~(0 <= v /\ v <= QUANTIS_MAX_READ_SIZE)
                                  THEN 1 ELSE error
                /\ UNCHANGED << xc, daemonize, type, unit, check, path, mode >>
             \/ /\ opt' = "o" /\ path' = "PATH"
                /\ UNCHANGED << xc, error, daemonize, type, unit, check, size, mode >>
             \/ /\ opt' = "h" /\ xc' = 0 /\ error' = 1
                /\ UNCHANGED << daemonize, type, unit, check, size, path, mode >>
             \/ /\ opt' = "?" /\ error' = 1
                /\ UNCHANGED << xc, daemonize, type, unit, check, size, path, mode >>
          /\ pc' = IF error' # 0 THEN "setup" ELSE "getopt"
    /\ UNCHANGED << tool, buffer, fp, rc, done, report, installed, brk, emitted,
                    bus, unserved, loopvars, endvars >>

\* if (error) usage; then daemon(0, 0) if so configured.
quantistool_daemon ==
    /\ tool = "quantistool" /\ pc = "setup"
    /\ \/ /\ error # 0
          /\ brk' = "usage" /\ pc' = "cleanup"
       \/ /\ error = 0 /\ daemonize # 0
          /\ brk' = "daemon" /\ pc' = "cleanup"
       \/ /\ error = 0
          /\ brk' = brk /\ pc' = "query"
    /\ UNCHANGED << tool, argn, opt, xc, optvars, buffer, fp, rc, done, report,
                    installed, emitted, bus, unserved, loopvars, endvars >>

\* rc = query(type, unit); leave if the device was asked for and is absent.
quantistool_query ==
    /\ tool = "quantistool" /\ pc = "query"
    /\ \E b \in Buses : rc' = query(type, unit, b)
    /\ IF rc' = 0 /\ check # 0
       THEN brk' = "check" /\ pc' = "cleanup"
       ELSE brk' = brk /\ pc' = "size"
    /\ UNCHANGED << tool, argn, opt, xc, optvars, buffer, fp, done, report,
                    installed, emitted, bus, unserved, loopvars, endvars >>

\* if (size == 0) { xc = 0; break; }, then buffer = malloc(size).
quantistool_malloc ==
    /\ tool = "quantistool" /\ pc = "size"
    /\ \/ /\ size = 0
          /\ xc' = 0 /\ brk' = "size" /\ pc' = "cleanup"
          /\ UNCHANGED buffer
       \/ /\ size # 0
          /\ buffer' = "NULL"
          /\ brk' = "malloc" /\ pc' = "cleanup"
          /\ UNCHANGED xc
       \/ /\ size # 0
          /\ buffer' = "allocated"
          /\ brk' = brk /\ pc' = "sigpipe"
          /\ UNCHANGED xc
    /\ UNCHANGED << tool, argn, opt, optvars, fp, rc, done, report, installed,
                    emitted, bus, unserved, loopvars, endvars >>

\* The three sigaction() calls, one per step; the third installs SIGINT
\* (with the sighup structure: the same handler).
quantistool_sigaction ==
    /\ tool = "quantistool" /\ pc \in { "sigpipe", "sighup", "sigint" }
    /\ \E r \in { 0, -1 } :
          /\ rc' = r
          /\ IF r < 0
             THEN /\ brk' = "sigaction" /\ pc' = "cleanup"
                  /\ UNCHANGED installed
             ELSE /\ installed' = installed \cup
                        { CASE pc = "sigpipe" -> "SIGPIPE"
                            [] pc = "sighup" -> "SIGHUP"
                            [] pc = "sigint" -> "SIGINT" }
                  /\ pc' = CASE pc = "sigpipe" -> "sighup"
                             [] pc = "sighup" -> "sigint"
                             [] pc = "sigint" -> "fopen"
                  /\ brk' = brk
    /\ UNCHANGED << tool, argn, opt, xc, optvars, buffer, fp, done, report,
                    emitted, bus, unserved, loopvars, endvars >>

\* quantistool_fopen without the break after a failed fopen.
quantistool_fopen_nobreak ==
    /\ tool = "quantistool" /\ pc = "fopen"
    /\ IF path # "NULL"
       THEN \E f \in { "file", "NULL" } :
               /\ fp' = f
               /\ brk' = IF f = "NULL" THEN "fopen" ELSE brk
               /\ pc' = "outer"
       ELSE fp' = fp /\ brk' = brk /\ pc' = "outer"
    /\ UNCHANGED << tool, argn, opt, xc, optvars, buffer, rc, done, report,
                    installed, emitted, bus, unserved, loopvars, endvars >>

\* if (path != 0) fp = fopen(path, "a").
quantistool_fopen ==
    /\ tool = "quantistool" /\ pc = "fopen"
    /\ IF path # "NULL"
       THEN \E f \in { "file", "NULL" } :
               /\ fp' = f
               /\ IF f = "NULL"
                  THEN brk' = "fopen" /\ pc' = "cleanup"
                  ELSE brk' = brk /\ pc' = "outer"
       ELSE fp' = fp /\ brk' = brk /\ pc' = "outer"
    /\ UNCHANGED << tool, argn, opt, xc, optvars, buffer, rc, done, report,
                    installed, emitted, bus, unserved, loopvars, endvars >>

\* quantistool_outer with the work loop not testing done.
quantistool_outer_forever ==
    /\ tool = "quantistool" /\ pc = "outer"
    /\ brk' = brk /\ pc' = "open"
    /\ UNCHANGED << tool, argn, opt, xc, optvars, buffer, fp, rc, done, report,
                    installed, emitted, bus, unserved, loopvars, endvars >>

\* while (!done) of the work loop.
quantistool_outer ==
    /\ tool = "quantistool" /\ pc = "outer"
    /\ IF done # 0
       THEN brk' = "done" /\ pc' = "xc"
       ELSE brk' = brk /\ pc' = "open"
    /\ UNCHANGED << tool, argn, opt, xc, optvars, buffer, fp, rc, done, report,
                    installed, emitted, bus, unserved, loopvars, endvars >>

\* quantistool_open with ++opens ahead of the test of rc.
quantistool_open_counted ==
    /\ tool = "quantistool" /\ pc = "open"
    /\ did' = did \cup { "open" }
    /\ opens < MaxOpens
    /\ opens' = opens + 1
    /\ \/ /\ rc' = -1
          /\ brk' = "QuantisOpen" /\ pc' = "xc"
          /\ UNCHANGED << handle, live >>
       \/ /\ rc' = QUANTIS_SUCCESS
          /\ handle' = "open"
          /\ live' = live + 1
          /\ brk' = brk /\ pc' = "inner"
    /\ UNCHANGED << tool, argn, opt, xc, optvars, buffer, fp, done, report,
                    installed, emitted, bus, unserved, contents, written, reads, total,
                    tries, word, carry, sink, produced, misses, errno,
                    endvars >>

\* quantistool_open going round the work loop again when the open fails.
quantistool_open_again ==
    /\ tool = "quantistool" /\ pc = "open"
    /\ did' = did \cup { "open" }
    /\ \/ /\ rc' = -1
          /\ brk' = "QuantisOpen" /\ pc' = "outer"
          /\ UNCHANGED << opens, handle, live >>
       \/ /\ opens < MaxOpens
          /\ rc' = QUANTIS_SUCCESS
          /\ opens' = opens + 1
          /\ handle' = "open"
          /\ live' = live + 1
          /\ brk' = brk /\ pc' = "inner"
    /\ UNCHANGED << tool, argn, opt, xc, optvars, buffer, fp, done, report,
                    installed, emitted, bus, unserved, contents, written, reads, total,
                    tries, word, carry, sink, produced, misses, errno,
                    endvars >>

\* rc = QuantisOpen(type, unit, &handle); break on error, else ++opens.
quantistool_open ==
    /\ tool = "quantistool" /\ pc = "open"
    /\ did' = did \cup { "open" }
    /\ \/ /\ rc' = -1
          /\ brk' = "QuantisOpen" /\ pc' = "xc"
          /\ UNCHANGED << opens, handle, live >>
       \/ /\ opens < MaxOpens
          /\ rc' = QUANTIS_SUCCESS
          /\ opens' = opens + 1
          /\ handle' = "open"
          /\ live' = live + 1
          /\ brk' = brk /\ pc' = "inner"
    /\ UNCHANGED << tool, argn, opt, xc, optvars, buffer, fp, done, report,
                    installed, emitted, bus, unserved, contents, written, reads, total,
                    tries, word, carry, sink, produced, misses, errno,
                    endvars >>

\* quantistool_inner with the input/output loop not testing done.
quantistool_inner_forever ==
    /\ tool = "quantistool" /\ pc = "inner"
    /\ brk' = brk
    /\ pc' = IF report # 0 THEN "emit" ELSE "read1"
    /\ UNCHANGED << tool, argn, opt, xc, optvars, buffer, fp, rc, done, report,
                    installed, emitted, bus, unserved, loopvars, endvars >>

\* while (!done) of the input/output loop, then if (report).
quantistool_inner ==
    /\ tool = "quantistool" /\ pc = "inner"
    /\ IF done # 0
       THEN brk' = "done" /\ pc' = "close"
       ELSE /\ brk' = brk
            /\ pc' = IF report # 0 THEN "emit" ELSE "read1"
    /\ UNCHANGED << tool, argn, opt, xc, optvars, buffer, fp, rc, done, report,
                    installed, emitted, bus, unserved, loopvars, endvars >>

\* quantistool_emit starting the count of opens afresh with each line.
quantistool_emit_reset ==
    /\ tool = "quantistool" /\ pc = "emit"
    /\ emitted' = emitted + 1
    /\ unserved' = 0
    /\ opens' = 0
    /\ pc' = "clear"
    /\ UNCHANGED << tool, argn, opt, xc, optvars, buffer, fp, rc, done, report,
                    installed, brk, bus, contents, handle, written, reads,
                    total, tries, word, carry, sink, produced, did, misses,
                    live, errno, endvars >>

\* lprintf of the counters.
quantistool_emit ==
    /\ tool = "quantistool" /\ pc = "emit"
    /\ emitted' = emitted + 1
    /\ unserved' = 0
    /\ pc' = "clear"
    /\ UNCHANGED << tool, argn, opt, xc, optvars, buffer, fp, rc, done, report,
                    installed, brk, bus, loopvars, endvars >>

\* report = 0.
quantistool_clear ==
    /\ tool = "quantistool" /\ pc = "clear"
    /\ report' = 0
    /\ pc' = "read1"
    /\ UNCHANGED << tool, argn, opt, xc, optvars, buffer, fp, rc, done,
                    installed, brk, emitted, bus, unserved, loopvars, endvars >>

\* rc = QuantisReadHandled(handle, buffer, size): the library fills the
\* buffer with size bytes and returns size, or returns an error.
QuantisReadHandled(failpc, failbrk) ==
    /\ did' = did \cup { "read" }
    /\ \/ /\ rc' = -1
          /\ contents' = << 0, 0 >>
          /\ pc' = failpc /\ brk' = failbrk
          /\ UNCHANGED produced
       \/ /\ reads < MaxReads
          /\ rc' = size
          /\ contents' = << Len(produced) + 1, size >>
          /\ produced' = Append(produced, Len(produced) + 1)
          /\ pc' = "write" /\ brk' = brk
    /\ UNCHANGED << tool, argn, opt, xc, optvars, buffer, fp, done, report,
                    installed, emitted, bus, unserved, handle, written, opens, reads,
                    total, tries, word, carry, sink, misses, live, errno,
                    endvars >>

\* quantistool_read1 breaking on its failure, with no second try.
quantistool_read1_noretry ==
    /\ tool = "quantistool" /\ pc = "read1"
    /\ QuantisReadHandled("close", "QuantisReadHandled")

\* The first read of an iteration.
quantistool_read1 ==
    /\ tool = "quantistool" /\ pc = "read1"
    /\ QuantisReadHandled("read2", brk)

\* The second try on the same handle; break if it fails too.
quantistool_read2 ==
    /\ tool = "quantistool" /\ pc = "read2"
    /\ QuantisReadHandled("close", "QuantisReadHandled")

\* ++reads; total += size.
quantistool_tally_units ==
    /\ reads' = reads + 1
    /\ total' = total + 1

quantistool_tally ==
    /\ reads' = reads + 1
    /\ total' = total + size

\* quantistool_write looking at done before the fwrite and leaving the loop
\* with the unit unwritten.
quantistool_write_unless_done ==
    /\ tool = "quantistool" /\ pc = "write"
    /\ IF rc < QUANTIS_SUCCESS
       THEN /\ brk' = "QuantisReadHandled" /\ pc' = "close"
            /\ UNCHANGED << reads, total, written, sink, did >>
       ELSE IF done # 0
       THEN /\ brk' = "done" /\ pc' = "close"
            /\ UNCHANGED << reads, total, written, sink, did >>
       ELSE /\ quantistool_tally
            /\ did' = did \cup { "write" }
            /\ \E w \in { 0, 1 } :
                  /\ written' = w
                  /\ IF w < 1
                     THEN /\ sink' = sink
                          /\ brk' = "fwrite" /\ pc' = "close"
                     ELSE /\ sink' = Append(sink, << contents[1], size >>)
                          /\ brk' = brk /\ pc' = "inner"
    /\ UNCHANGED << tool, argn, opt, xc, optvars, buffer, fp, rc, done, report,
                    installed, emitted, bus, unserved, contents, handle, opens, tries,
                    word, carry, produced, misses, live, errno, endvars >>

\* if (rc < QUANTIS_SUCCESS) break; ++reads; total += size;
\* written = fwrite(buffer, size, 1, fp); break if written < 1.
quantistool_write ==
    /\ tool = "quantistool" /\ pc = "write"
    /\ IF rc < QUANTIS_SUCCESS
       THEN /\ brk' = "QuantisReadHandled" /\ pc' = "close"
            /\ UNCHANGED << reads, total, written, sink, did >>
       ELSE /\ quantistool_tally
            /\ did' = did \cup { "write" }
            /\ \E w \in { 0, 1 } :
                  /\ written' = w
                  /\ IF w < 1
                     THEN /\ sink' = sink
                          /\ brk' = "fwrite" /\ pc' = "close"
                     ELSE /\ sink' = Append(sink, << contents[1], size >>)
                          /\ brk' = brk /\ pc' = "inner"
    /\ UNCHANGED << tool, argn, opt, xc, optvars, buffer, fp, rc, done, report,
                    installed, emitted, bus, unserved, contents, handle, opens, tries,
                    word, carry, produced, misses, live, errno, endvars >>

\* QuantisClose(handle): the library releases an open handle; a handle it
\* has released already is released a second time.
QuantisClose ==
    IF handle = "open"
    THEN handle' = "closed" /\ live' = live - 1
    ELSE handle' = "closed twice" /\ live' = live

\* quantistool_close without the call of QuantisClose.
quantistool_close_skipped ==
    /\ tool = "quantistool" /\ pc = "close"
    /\ pc' = "outer"
    /\ UNCHANGED << tool, argn, opt, xc, optvars, buffer, fp, rc, done, report,
                    installed, brk, emitted, bus, unserved, loopvars, endvars >>

\* if (handle != 0) QuantisClose(handle); back to the work loop's test.
quantistool_close ==
    /\ tool = "quantistool" /\ pc = "close"
    /\ IF handle # "NULL" THEN QuantisClose ELSE UNCHANGED << handle, live >>
    /\ pc' = "outer"
    /\ UNCHANGED << tool, argn, opt, xc, optvars, buffer, fp, rc, done, report,
                    installed, brk, emitted, bus, unserved, contents, written, opens,
                    reads, total, tries, word, carry, sink, produced, did,
                    misses, errno, endvars >>

\* xc = 0 after the work loop.
quantistool_xc ==
    /\ tool = "quantistool" /\ pc = "xc"
    /\ xc' = 0
    /\ pc' = "cleanup"
    /\ UNCHANGED << tool, argn, opt, optvars, buffer, fp, rc, done, report,
                    installed, brk, emitted, bus, unserved, loopvars, endvars >>

\* quantistool_cleanup without the free of the buffer.
quantistool_cleanup_nofree ==
    /\ tool = "quantistool" /\ pc = "cleanup"
    /\ fclosed' = IF fp # "NULL" THEN fclosed + 1 ELSE fclosed
    /\ pc' = "exit"
    /\ UNCHANGED << tool, argn, opt, xc, optvars, buffer, fp, rc, done, report,
                    installed, brk, emitted, bus, unserved, loopvars, freed >>

\* fclose(fp) and free(buffer) when not null; return xc.
quantistool_cleanup ==
    /\ tool = "quantistool" /\ pc = "cleanup"
    /\ fclosed' = IF fp # "NULL" THEN fclosed + 1 ELSE fclosed
    /\ freed' = IF buffer # "NULL" THEN freed + 1 ELSE freed
    /\ buffer' = IF buffer # "NULL" THEN "freed" ELSE buffer
    /\ pc' = "exit"
    /\ UNCHANGED << tool, argn, opt, xc, optvars, fp, rc, done, report,
                    installed, brk, emitted, bus, unserved, loopvars >>

(* ----------------------- quantistool.c: handler ------------------------ *)
quantistool_handler(signum) ==
    /\ tool = "quantistool" /\ pc # "exit"
    /\ signum \in installed
    /\ IF signum = "SIGPIPE" THEN done' = 1 /\ report' = report
       ELSE IF signum = "SIGINT" THEN done' = 1 /\ report' = report
       ELSE IF signum = "SIGHUP" THEN /\ emitted < MaxReports
                                      /\ report' = 1 /\ done' = done
       ELSE done' = done /\ report' = report
    /\ unserved' = IF signum = "SIGHUP" THEN 1 ELSE unserved
    /\ UNCHANGED << tool, pc, argn, opt, xc, optvars, buffer, fp, rc,
                    installed, brk, emitted, bus, loopvars, endvars >>

(* ------------------------- seventool.c: main --------------------------- *)
\* One pass of the getopt loop: the switch on opt, then the test of error.
seventool_getopt ==
    /\ tool = "seventool" /\ pc = "getopt"
    /\ \/ /\ argn = 0
          /\ opt' = "EOF"
          /\ pc' = "setup"
          /\ UNCHANGED << argn, xc, optvars >>
       \/ /\ argn > 0
          /\ argn' = argn - 1
          /\ \/ /\ opt' = "D" /\ daemonize' = 1
                /\ UNCHANGED << xc, error, type, unit, check, size, path, mode >>
             \/ /\ opt' = "o" /\ path' = "PATH"
                /\ UNCHANGED << xc, error, daemonize, type, unit, check, size, mode >>
             \/ /\ opt' = "h" /\ xc' = 0 /\ error' = 1
                /\ UNCHANGED << daemonize, type, unit, check, size, path, mode >>
             \/ /\ opt' = "R" /\ mode' = "RDRAND"
                /\ UNCHANGED << xc, error, daemonize, type, unit, check, size, path >>
             \/ /\ opt' = "S" /\ mode' = "RDSEED"
                /\ UNCHANGED << xc, error, daemonize, type, unit, check, size, path >>
             \/ /\ opt' = "?" /\ error' = 1
                /\ UNCHANGED << xc, daemonize, type, unit, check, size, path, mode >>
          /\ pc' = IF error' # 0 THEN "setup" ELSE "getopt"
    /\ UNCHANGED << tool, buffer, fp, rc, done, report, installed, brk, emitted,
                    bus, unserved, loopvars, endvars >>

\* if (error) usage; then daemon(0, 0) if so configured.
seventool_daemon ==
    /\ tool = "seventool" /\ pc = "setup"
    /\ \/ /\ error # 0
          /\ brk' = "usage" /\ pc' = "cleanup"
       \/ /\ error = 0 /\ daemonize # 0
          /\ brk' = "daemon" /\ pc' = "cleanup"
       \/ /\ error = 0
          /\ brk' = brk /\ pc' = "sigpipe"
    /\ UNCHANGED << tool, argn, opt, xc, optvars, buffer, fp, rc, done, report,
                    installed, emitted, bus, unserved, loopvars, endvars >>

\* The three sigaction() calls, one per step; the third installs SIGINT
\* (with the sighup structure: the same handler).
seventool_sigaction ==
    /\ tool = "seventool" /\ pc \in { "sigpipe", "sighup", "sigint" }
    /\ \E r \in { 0, -1 } :
          /\ rc' = r
          /\ IF r < 0
             THEN /\ brk' = "sigaction" /\ pc' = "cleanup"
                  /\ UNCHANGED installed
             ELSE /\ installed' = installed \cup
                        { CASE pc = "sigpipe" -> "SIGPIPE"
                            [] pc = "sighup" -> "SIGHUP"
                            [] pc = "sigint" -> "SIGINT" }
                  /\ pc' = CASE pc = "sigpipe" -> "sighup"
                             [] pc = "sighup" -> "sigint"
                             [] pc = "sigint" -> "fopen"
                  /\ brk' = brk
    /\ UNCHANGED << tool, argn, opt, xc, optvars, buffer, fp, done, report,
                    emitted, bus, unserved, loopvars, endvars >>

\* if (path != 0) fp = fopen(path, "a"); then word = DEADCODE; carry = 1.
seventool_fopen ==
    /\ tool = "seventool" /\ pc = "fopen"
    /\ IF path # "NULL"
       THEN \E f \in { "file", "NULL" } :
               /\ fp' = f
               /\ IF f = "NULL"
                  THEN /\ brk' = "fopen" /\ pc' = "cleanup"
                       /\ UNCHANGED << word, carry >>
                  ELSE /\ brk' = brk /\ pc' = "loop"
                       /\ word' = DEADCODE /\ carry' = 1
       ELSE /\ fp' = fp /\ brk' = brk /\ pc' = "loop"
            /\ word' = DEADCODE /\ carry' = 1
    /\ UNCHANGED << tool, argn, opt, xc, optvars, buffer, rc, done, report,
                    installed, emitted, bus, unserved, contents, handle, written, opens,
                    reads, total, tries, sink, produced, did, misses, live,
                    errno, endvars >>

\* while (!done), then if (report).
seventool_loop ==
    /\ tool = "seventool" /\ pc = "loop"
    /\ IF done # 0
       THEN brk' = "done" /\ pc' = "xc"
       ELSE /\ brk' = brk
            /\ pc' = IF report # 0 THEN "emit" ELSE "sample"
    /\ UNCHANGED << tool, argn, opt, xc, optvars, buffer, fp, rc, done, report,
                    installed, emitted, bus, unserved, loopvars, endvars >>

\* lprintf of the counters.
seventool_emit ==
    /\ tool = "seventool" /\ pc = "emit"
    /\ emitted' = emitted + 1
    /\ unserved' = 0
    /\ pc' = "clear"
    /\ UNCHANGED << tool, argn, opt, xc, optvars, buffer, fp, rc, done, report,
                    installed, brk, bus, loopvars, endvars >>

\* report = 0.
seventool_clear ==
    /\ tool = "seventool" /\ pc = "clear"
    /\ report' = 0
    /\ pc' = "sample"
    /\ UNCHANGED << tool, argn, opt, xc, optvars, buffer, fp, rc, done,
                    installed, brk, emitted, bus, unserved, loopvars, endvars >>

\* seventool_sample counting in tries only the attempts that gave a word.
seventool_sample_uncounted ==
    /\ tool = "seventool" /\ pc = "sample"
    /\ tries < MaxTries
    /\ IF mode = "RDRAND" \/ mode = "RDSEED"
       THEN /\ did' = did \cup { "read" }
            /\ \/ /\ carry' = 0 /\ word' = ZEROWORD
                  /\ misses' = misses + 1
                  /\ UNCHANGED << produced, tries >>
               \/ /\ reads < MaxReads
                  /\ carry' = 1 /\ word' \in Words
                  /\ produced' = Append(produced, word')
                  /\ tries' = tries + 1
                  /\ UNCHANGED misses
       ELSE UNCHANGED << did, carry, word, produced, misses, tries >>
    /\ pc' = IF carry' # 0 THEN "write" ELSE "sleep"
    /\ UNCHANGED << tool, argn, opt, xc, optvars, buffer, fp, rc, done, report,
                    installed, brk, emitted, bus, unserved, contents, handle, written,
                    opens, reads, total, sink, live, errno, endvars >>

\* ++tries; the rdrand or rdseed instruction if so configured (word and
\* carry are its outputs: a random word with carry, or zero without);
\* then if (carry).
seventool_sample ==
    /\ tool = "seventool" /\ pc = "sample"
    /\ tries < MaxTries
    /\ tries' = tries + 1
    /\ IF mode = "RDRAND" \/ mode = "RDSEED"
       THEN /\ did' = did \cup { "read" }
            /\ \/ /\ carry' = 0 /\ word' = ZEROWORD
                  /\ misses' = misses + 1
                  /\ UNCHANGED produced
               \/ /\ reads < MaxReads
                  /\ carry' = 1 /\ word' \in Words
                  /\ produced' = Append(produced, word')
                  /\ UNCHANGED misses
       ELSE UNCHANGED << did, carry, word, produced, misses >>
    /\ pc' = IF carry' # 0 THEN "write" ELSE "sleep"
    /\ UNCHANGED << tool, argn, opt, xc, optvars, buffer, fp, rc, done, report,
                    installed, brk, emitted, bus, unserved, contents, handle, written,
                    opens, reads, total, sink, live, errno, endvars >>

\* seventool_sleep without the test of errno: an interrupted sleep breaks.
seventool_sleep_nointr ==
    /\ tool = "seventool" /\ pc = "sleep"
    /\ \E r \in { "slept", "EINTR", "EINVAL" } :
          /\ rc' = IF r = "slept" THEN 0 ELSE -1
          /\ errno' = IF r = "slept" THEN errno ELSE r
    /\ IF rc' >= 0 THEN brk' = brk /\ pc' = "loop"
       ELSE brk' = "nanosleep" /\ pc' = "xc"
    /\ UNCHANGED << tool, argn, opt, xc, optvars, buffer, fp, done, report,
                    installed, emitted, bus, unserved, contents, handle, written, opens,
                    reads, total, tries, word, carry, sink, produced, did,
                    misses, live, endvars >>

\* seventool_sleep going back to the attempt, not to the test of done.
seventool_sleep_retry ==
    /\ tool = "seventool" /\ pc = "sleep"
    /\ \E r \in { "slept", "EINTR", "EINVAL" } :
          /\ rc' = IF r = "slept" THEN 0 ELSE -1
          /\ errno' = IF r = "slept" THEN errno ELSE r
    /\ IF rc' >= 0 THEN brk' = brk /\ pc' = "sample"
       ELSE IF errno' = "EINTR" THEN brk' = brk /\ pc' = "sample"
       ELSE brk' = "nanosleep" /\ pc' = "xc"
    /\ UNCHANGED << tool, argn, opt, xc, optvars, buffer, fp, done, report,
                    installed, emitted, bus, unserved, contents, handle, written, opens,
                    reads, total, tries, word, carry, sink, produced, did,
                    misses, live, endvars >>

\* rc = nanosleep(&request, 0): it slept the whole time, a signal cut it
\* short (EINTR) or it failed; continue unless it failed.
seventool_sleep ==
    /\ tool = "seventool" /\ pc = "sleep"
    /\ \E r \in { "slept", "EINTR", "EINVAL" } :
          /\ rc' = IF r = "slept" THEN 0 ELSE -1
          /\ errno' = IF r = "slept" THEN errno ELSE r
    /\ IF rc' >= 0 THEN brk' = brk /\ pc' = "loop"
       ELSE IF errno' = "EINTR" THEN brk' = brk /\ pc' = "loop"
       ELSE brk' = "nanosleep" /\ pc' = "xc"
    /\ UNCHANGED << tool, argn, opt, xc, optvars, buffer, fp, done, report,
                    installed, emitted, bus, unserved, contents, handle, written, opens,
                    reads, total, tries, word, carry, sink, produced, did,
                    misses, live, endvars >>

\* ++reads; total += sizeof(word); written = fwrite(&word, sizeof(word), 1, fp);
\* break if written < 1.
seventool_write ==
    /\ tool = "seventool" /\ pc = "write"
    /\ reads < MaxReads
    /\ reads' = reads + 1
    /\ total' = total + SizeofWord
    /\ did' = did \cup { "write" }
    /\ \E w \in { 0, 1 } :
          /\ written' = w
          /\ IF w < 1
             THEN /\ sink' = sink
                  /\ brk' = "fwrite" /\ pc' = "xc"
             ELSE /\ sink' = Append(sink, << word, SizeofWord >>)
                  /\ brk' = brk /\ pc' = "loop"
    /\ UNCHANGED << tool, argn, opt, xc, optvars, buffer, fp, rc, done, report,
                    installed, emitted, bus, unserved, contents, handle, opens, tries,
                    word, carry, produced, misses, live, errno, endvars >>

\* xc = 0 after the work loop.
seventool_xc ==
    /\ tool = "seventool" /\ pc = "xc"
    /\ xc' = 0
    /\ pc' = "cleanup"
    /\ UNCHANGED << tool, argn, opt, optvars, buffer, fp, rc, done, report,
                    installed, brk, emitted, bus, unserved, loopvars, endvars >>

\* fclose(fp) when not null; return xc.
seventool_cleanup ==
    /\ tool = "seventool" /\ pc = "cleanup"
    /\ fclosed' = IF fp # "NULL" THEN fclosed + 1 ELSE fclosed
    /\ pc' = "exit"
    /\ UNCHANGED << tool, argn, opt, xc, optvars, buffer, fp, rc, done, report,
                    installed, brk, emitted, bus, unserved, loopvars, freed >>

(* ------------------------ seventool.c: handler ------------------------- *)
seventool_handler(signum) ==
    /\ tool = "seventool" /\ pc # "exit"
    /\ signum \in installed
    /\ IF signum = "SIGPIPE" THEN done' = 1 /\ report' = report
       ELSE IF signum = "SIGINT" THEN done' = 1 /\ report' = report
       ELSE IF signum = "SIGHUP" THEN /\ emitted < MaxReports
                                      /\ report' = 1 /\ done' = done
       ELSE done' = done /\ report' = report
    /\ unserved' = IF signum = "SIGHUP" THEN 1 ELSE unserved
    /\ UNCHANGED << tool, pc, argn, opt, xc, optvars, buffer, fp, rc,
                    installed, brk, emitted, bus, loopvars, endvars >>

(* ------------------------------ the runs ------------------------------- *)
Next ==
    \/ quantistool_getopt
    \/ quantistool_daemon
    \/ quantistool_query
    \/ quantistool_malloc
    \/ quantistool_sigaction
    \/ quantistool_fopen
    \/ quantistool_outer
    \/ quantistool_open
    \/ quantistool_inner
    \/ quantistool_emit
    \/ quantistool_clear
    \/ quantistool_read1
    \/ quantistool_read2
    \/ quantistool_write
    \/ quantistool_close
    \/ quantistool_xc
    \/ quantistool_cleanup
    \/ \E signum \in Signals : quantistool_handler(signum)
    \/ seventool_getopt
    \/ seventool_daemon
    \/ seventool_sigaction
    \/ seventool_fopen
    \/ seventool_loop
    \/ seventool_emit
    \/ seventool_clear
    \/ seventool_sample
    \/ seventool_sleep
    \/ seventool_write
    \/ seventool_xc
    \/ seventool_cleanup
    \/ \E signum \in Signals : seventool_handler(signum)

Spec == Init /\ [][Next]_vars

(* ------------------------- query() on its own -------------------------- *)
\* query(type, unit) called for every device asked for, against every bus.
InitQuery ==
    /\ Blank("quantistool")
    /\ argn = 0
    /\ pc = "query_call"
    /\ type \in { TYPES[i] : i \in 1..Len(TYPES) }
    /\ unit \in 0..MaxUnit
    /\ bus \in Buses

query_call ==
    /\ pc = "query_call"
    /\ rc' = query(type, unit, bus)
    /\ pc' = "query_return"
    /\ UNCHANGED << tool, argn, opt, xc, optvars, buffer, fp, done, report,
                    installed, brk, emitted, bus, unserved, loopvars, endvars >>

NextQuery == query_call

SpecQuery == InitQuery /\ [][NextQuery]_vars

(* ------------------------------ the claims ----------------------------- *)
RECURSIVE SumBytes(_)
SumBytes(s) == IF s = << >> THEN 0 ELSE s[1][2] + SumBytes(Tail(s))
\* the bytes and the units the sink has accepted
SinkBytes == SumBytes(sink)
SinkUnits == [ i \in 1..Len(sink) |-> sink[i][1] ]
\* some fwrite has returned less than 1: every fwrite follows a ++reads
WriteFailed == reads > Len(sink)
\* the unit main() is about to hand to fwrite
InHand == IF tool = "quantistool" THEN contents[1] ELSE word

\* C1: once an fwrite has returned less than 1, main() makes no further
\* source open, source read or sink write, whatever the value of done.
C1_WriteFailureEndsLoop ==
    [][ WriteFailed =>
          ~ ( /\ pc \in { "open", "read1", "read2", "write", "sample" }
              /\ pc' # pc ) ]_vars

\* C2: whenever main() is at the fwrite, the unit in hand is the one the
\* source delivered with success in this iteration (the latest unit produced,
\* not yet counted in reads).
C2_WrittenOnlyOnSuccess ==
    pc = "write" =>
        /\ Len(produced) = reads + 1
        /\ InHand = produced[Len(produced)]
        /\ (tool = "quantistool" => rc >= QUANTIS_SUCCESS)
        /\ (tool = "seventool" => carry # 0)

\* C3: the sink holds exactly the units the source has delivered, in order,
\* less at most the latest one.
C3_SinkIsSourceStream ==
    \/ SinkUnits = produced
    \/ /\ produced # << >>
       /\ SinkUnits = SubSeq(produced, 1, Len(produced) - 1)

\* C4 as claimed: in quantistool every successful read puts size bytes into
\* the sink and total counts exactly the bytes the sink has taken.
C4_TotalCountsForwarded ==
    tool = "quantistool" =>
        /\ total = SinkBytes
        /\ (pc # "write" => SinkBytes = size * Len(produced))

\* C4 as amended: in quantistool the loop runs with 0 < size <= maximum;
\* the fwrite step after a successful read adds exactly size to total, and
\* puts exactly size bytes of the unit just read into the sink when fwrite
\* returns 1 and nothing otherwise; no other step (of main() or of the
\* handler) changes total or the sink.
C4_TotalCountsRead ==
    [][ tool = "quantistool" =>
          /\ (pc = "write" /\ pc' # pc /\ rc >= QUANTIS_SUCCESS) =>
                /\ 0 < size /\ size <= QUANTIS_MAX_READ_SIZE
                /\ rc = size
                /\ total' = total + size
                /\ IF written' >= 1
                   THEN /\ sink' = Append(sink, << produced[Len(produced)], size >>)
                        /\ SinkBytes' = SinkBytes + size
                   ELSE sink' = sink
          /\ (pc # "write" \/ pc' = pc) => (total' = total /\ sink' = sink)
          /\ (Len(produced') > Len(produced)) => pc' = "write" ]_vars

C4_Witness ==
    /\ tool = "quantistool" /\ pc = "exit"
    /\ size = QUANTIS_MAX_READ_SIZE
    /\ Len(produced) = 2 /\ SinkUnits = << 2 >>
    /\ total = 2 * size /\ SinkBytes = size

\* C5: quantistool run with a read size of 0 (options accepted, daemon() not
\* failing) returns 0 with no source call and the sink still stdout.
C5_SizeZeroExitsZero ==
    ( /\ tool = "quantistool" /\ pc = "exit"
      /\ size = 0 /\ error = 0 /\ brk # "daemon" )
    => (xc = 0 /\ did = {} /\ fp = "stdout")

\* C6: quantistool leaving because -c was given and query() found the
\* device absent returns 0 and has made no source or sink call.
C6_AbsentIsSuccess ==
    (tool = "quantistool" /\ pc = "exit" /\ brk = "check")
    => (xc = 0 /\ did = {})

\* C7: query returns 1 if the unit asked for is among the detected units of
\* the type asked for and its modules status is not zero, and 0 otherwise,
\* whatever the devices of the other type are.
Present ==
    /\ unit < bus[type].detected
    /\ bus[type].status[unit + 1] # 0

C7_QueryIffPresent ==
    pc = "query_return" =>
        /\ rc \in { 0, 1 }
        /\ (rc = 1) <=> Present
        /\ \A t \in DOMAIN bus, v \in TypeViews :
              t # type => query(type, unit, [ bus EXCEPT ![t] = v ]) = rc

C7_Witness ==
    /\ pc = "query_return" /\ rc = 1
    /\ unit = 1 /\ bus[type].detected = 2 /\ bus[type].status[1] = 0
    /\ \E t \in DOMAIN bus : t # type /\ bus[t].detected = 2

\* C8: after a bad option, a failed malloc, a failed sigaction or a failed
\* fopen, main() is in its cleanup or has returned, the exit code is not 0,
\* and no source open, source read or sink write was ever made.
SetupError ==
    \/ brk = "usage" /\ opt # "h"
    \/ brk \in { "malloc", "sigaction", "fopen" }

C8_SetupErrorIsFatal ==
    SetupError =>
        /\ pc \in { "cleanup", "exit" }
        /\ xc # 0
        /\ did = {} /\ sink = << >> /\ produced = << >>
        /\ opens = 0 /\ reads = 0 /\ tries = 0

C8_Witness ==
    /\ pc = "exit" /\ brk = "fopen" /\ fp = "NULL" /\ xc = 1
    /\ installed = Signals

\* C9: quantistool whose QuantisOpen failed returns 1.
C9_OpenFailureExitsOne ==
    (tool = "quantistool" /\ pc = "exit" /\ brk = "QuantisOpen") => xc = 1

Leaving == { "inner", "close", "outer", "loop", "xc", "cleanup", "exit" }

C11_ShutdownDuringSleep ==
    [][ (tool = "seventool" /\ done # 0 /\ pc \in { "sleep", "loop" })
        => /\ done' # 0
           /\ pc' \in { "sleep", "loop", "xc" }
           /\ (pc = "loop" /\ pc' # pc => pc' = "xc" /\ brk' = "done")
           /\ tries' = tries /\ misses' = misses /\ produced' = produced
           /\ reads' = reads /\ total' = total /\ sink' = sink
           /\ did' = did ]_vars

\* the loop left on done after a first attempt that failed and a sleep
\* that a signal interrupted
C11_Witness ==
    /\ tool = "seventool" /\ pc = "xc" /\ brk = "done" /\ done # 0
    /\ mode # "FAIL" /\ carry = 0 /\ rc = -1 /\ errno = "EINTR"
    /\ tries = 1 /\ misses = 1 /\ sink = << >>

\* C12 as claimed: a report requested while the loop runs is emitted
\* whatever the value of done, so the test of an iteration that finds the
\* request pending, the source having been read before, goes to the emission.
LoopRan == "read" \in did

C12_ReportAlwaysEmitted ==
    [][ (pc \in { "inner", "loop" } /\ pc' # pc /\ LoopRan /\ report # 0)
        => pc' = "emit" ]_vars

\* C13: a quantistool run that opened the device once, whose last read and
\* last fwrite did not fail (with one open, a read failing twice or an fwrite
\* failing is the last one) and that left its loop on done, has read N units
\* of size > 0 bytes from the source and ends with those N units in the
\* sink, N * size bytes, reads = N and total = N * size.
C13_NominalRun ==
    ( /\ tool = "quantistool" /\ pc = "exit" /\ brk = "done"
      /\ opens = 1 /\ rc >= QUANTIS_SUCCESS
      /\ (reads = 0 \/ written = 1) )
    => LET N == Len(produced)
       IN  /\ size > 0
           /\ SinkUnits = produced
           /\ SinkBytes = N * size
           /\ reads = N
           /\ total = N * size

\* three reads of 4096 bytes, then the signal
C13_Witness ==
    /\ tool = "quantistool" /\ pc = "exit" /\ brk = "done"
    /\ opens = 1 /\ rc >= QUANTIS_SUCCESS /\ written = 1
    /\ size = 4096 /\ Len(produced) = 3
    /\ SinkBytes = 12288 /\ reads = 3 /\ total = 12288

\* the first word the CPU gave has been through the fwrite step, and no
\* attempt was made since
FirstWordDone ==
    /\ tool = "seventool" /\ mode # "FAIL"
    /\ Len(produced) = 1 /\ carry # 0 /\ pc # "write"

\* C14 as claimed: in seventool with -R or -S, once the first attempt with
\* carry set, made after K attempts with carry clear, has been processed,
\* the sink holds that one word of 4 bytes and tries = K + 1, reads = 1,
\* total = 4.
C14_FirstWordWritten ==
    FirstWordDone =>
        /\ sink = << << produced[1], SizeofWord >> >>
        /\ tries = misses + 1 /\ reads = 1 /\ total = SizeofWord

\* C14 as amended: the counters are as claimed, and the sink holds that one
\* word if its fwrite returned 1 and nothing if it did not.
C14_FirstWordCounted ==
    FirstWordDone =>
        /\ tries = misses + 1 /\ reads = 1 /\ total = SizeofWord
        /\ word = produced[1]
        /\ IF written = 1
           THEN sink = << << word, SizeofWord >> >>
           ELSE sink = << >> /\ brk = "fwrite"

\* two attempts without carry, the third gave a word and it was written
C14_Witness ==
    /\ FirstWordDone /\ pc = "loop"
    /\ misses = 2 /\ tries = 3 /\ reads = 1 /\ total = 4
    /\ sink = << << produced[1], 4 >> >>

\* C15: in quantistool a read that fails leaves reads, total and opens as
\* they are and leads to the second read or, from the second read, to the
\* close; the close and the loop test that follow leave the counters too;
\* opens grows, by one, exactly in the QuantisOpen step in which the library
\* hands out a handle; reads and total grow only in the step after a read
\* that succeeded.
C15_FailedReadsNotCounted ==
    [][ tool = "quantistool" =>
          /\ (pc \in { "read1", "read2" } /\ pc' # pc
                 /\ rc' < QUANTIS_SUCCESS) =>
                /\ pc' = IF pc = "read1" THEN "read2" ELSE "close"
                /\ reads' = reads /\ total' = total /\ opens' = opens
          /\ (pc \in { "close", "outer" } /\ pc' # pc) =>
                reads' = reads /\ total' = total /\ opens' = opens
          /\ (pc = "open" /\ pc' # pc) =>
                /\ opens' = IF live' = live + 1 THEN opens + 1 ELSE opens
                /\ (live' = live + 1) <=> (rc' >= QUANTIS_SUCCESS)
                /\ reads' = reads /\ total' = total
          /\ opens' # opens => (pc = "open" /\ pc' # pc)
          /\ (reads' # reads \/ total' # total) =>
                (pc = "write" /\ pc' # pc /\ rc >= QUANTIS_SUCCESS) ]_vars

\* one unit read and written, then two reads failed, the handle was closed
\* and the device opened again
C15_Witness ==
    /\ tool = "quantistool" /\ pc = "inner"
    /\ brk = "QuantisReadHandled" /\ rc = QUANTIS_SUCCESS
    /\ opens = 2 /\ reads = 1 /\ total = size /\ Len(produced) = 1

\* C16 as claimed: when main() of either tool returns, fclose has been
\* called exactly once, the buffer, if malloc gave one, has been freed
\* exactly once, and the Quantis library holds no handle open.
C16_SinkClosedOnce ==
    pc = "exit" =>
        /\ fclosed = 1
        /\ (buffer # "NULL" => buffer = "freed" /\ freed = 1)
        /\ live = 0 /\ handle # "open"

\* C16 as amended: as claimed, but for the sink: fclose has been called
\* exactly once when fp is a stream and not at all when it is null, which it
\* is only after the fopen of the sink failed. Nothing is closed or freed
\* before main() is at its end.
C16_ResourcesReleased ==
    /\ pc = "exit" =>
          /\ fclosed = IF fp # "NULL" THEN 1 ELSE 0
          /\ (fp = "NULL" => brk = "fopen")
          /\ freed = IF buffer # "NULL" THEN 1 ELSE 0
          /\ buffer \in { "NULL", "freed" }
          /\ live = 0 /\ handle \in { "NULL", "closed" }
    /\ pc # "exit" => (fclosed = 0 /\ freed = 0 /\ buffer # "freed")

\* quantistool returned after a reopen that failed: the file closed, the
\* buffer freed, the handle of the first open closed
C16_Witness ==
    /\ tool = "quantistool" /\ pc = "exit" /\ brk = "QuantisOpen"
    /\ opens = 1 /\ handle = "closed" /\ live = 0
    /\ fp = "file" /\ fclosed = 1 /\ buffer = "freed" /\ freed = 1

\* C17: in quantistool a first read that fails is followed by a second read
\* on the same handle, still open; a read that succeeds, first or second,
\* hands its unit to the fwrite step in the same way; a second read that
\* fails is followed by the close of the handle and the test of the work
\* loop, which goes to QuantisOpen unless done is set; and the work loop is
\* left only by that test finding done set or by QuantisOpen failing.
C17_RetryOnceThenReopen ==
    [][ tool = "quantistool" =>
          /\ (pc \in { "read1", "read2" } /\ pc' # pc) =>
                /\ handle = "open" /\ handle' = handle /\ live' = live
                /\ IF rc' < QUANTIS_SUCCESS
                   THEN /\ pc' = IF pc = "read1" THEN "read2" ELSE "close"
                        /\ produced' = produced
                   ELSE /\ pc' = "write" /\ rc' = size /\ brk' = brk
                        /\ Len(produced') = Len(produced) + 1
                        /\ contents' = << produced'[Len(produced')], size >>
          /\ (pc = "close" /\ pc' # pc) =>
                (handle' = "closed" /\ live' = 0 /\ pc' = "outer")
          /\ (pc = "outer" /\ pc' # pc) =>
                pc' = IF done # 0 THEN "xc" ELSE "open"
          /\ (pc' = "xc" /\ pc # "xc") =>
                \/ pc = "outer" /\ done # 0
                \/ pc = "open" /\ rc' < QUANTIS_SUCCESS ]_vars

\* both reads failed, the handle was closed, and the loop is about to open
\* the device again
C17_Witness ==
    /\ tool = "quantistool" /\ pc = "open" /\ done = 0
    /\ brk = "QuantisReadHandled" /\ rc < QUANTIS_SUCCESS
    /\ handle = "closed" /\ opens = 1

\* C18: in every state of quantistool the library holds at most one handle
\* open, the one main() has in handle; main() is in its input/output loop
\* (the reads included) or at the close only with that handle open; it is
\* at the test of the work loop, at QuantisOpen or past the loop only with
\* no handle open; no handle is closed twice, and a handle that was never
\* opened is never closed.
InnerPcs == { "inner", "emit", "clear", "read1", "read2", "write", "close" }

C18_HandlePairing ==
    tool = "quantistool" =>
        /\ live \in { 0, 1 }
        /\ live = IF handle = "open" THEN 1 ELSE 0
        /\ handle \in { "NULL", "open", "closed" }
        /\ (pc \in InnerPcs) <=> (handle = "open")
        /\ (opens = 0 => handle = "NULL")
        /\ (handle = "closed" => opens > 0)

\* a read about to be made on the second handle, the first one closed
C18_Witness ==
    /\ tool = "quantistool" /\ pc = "read1"
    /\ opens = 2 /\ handle = "open" /\ live = 1

\* C19: in quantistool a QuantisOpen that fails takes main() out of the
\* work loop; from then on main() is past the loop and makes no open, no
\* read and no write; and a source call whose failure takes main() out of
\* the work loop is a QuantisOpen, never a read.
AfterLoop == { "xc", "cleanup", "exit" }

C19_OpenFailureEndsLoop ==
    [][ tool = "quantistool" =>
          /\ (pc = "open" /\ pc' # pc /\ rc' < QUANTIS_SUCCESS) =>
                (pc' = "xc" /\ brk' = "QuantisOpen")
          /\ brk = "QuantisOpen" =>
                /\ pc \in AfterLoop /\ pc' \in AfterLoop
                /\ brk' = brk /\ did' = did
                /\ opens' = opens /\ reads' = reads /\ total' = total
                /\ produced' = produced /\ sink' = sink
          /\ (pc \in { "read1", "read2" } /\ pc' # pc) =>
                pc' \notin AfterLoop
          /\ (pc \in InnerPcs \cup { "outer", "open" }
                 /\ pc' \in AfterLoop /\ ~(pc = "outer" /\ done # 0)) =>
                (pc = "open" /\ rc' < QUANTIS_SUCCESS) ]_vars

\* the reopen after two failed reads failed, and main() returned with the
\* one unit it had written
C19_Witness ==
    /\ tool = "quantistool" /\ pc = "exit" /\ brk = "QuantisOpen"
    /\ rc < QUANTIS_SUCCESS /\ opens = 1
    /\ reads = 1 /\ Len(sink) = 1 /\ Len(produced) = 1

\* C20: in seventool an attempt that gives no carry goes to the sleep with
\* reads, total and the sink as they were; the sleep changes none of them
\* either and, completed or interrupted (EINTR) alike, goes back to the
\* test of done, leaving the loop only when nanosleep failed otherwise; and
\* that test, with done clear, goes on to another attempt however many
\* attempts have failed.
C20_FailedAttemptBacksOff ==
    [][ tool = "seventool" =>
          /\ (pc = "sample" /\ pc' # pc /\ carry' = 0) =>
                /\ pc' = "sleep" /\ brk' = brk
                /\ misses' = misses + 1
                /\ reads' = reads /\ total' = total /\ sink' = sink
                /\ written' = written
          /\ (pc = "sleep" /\ pc' # pc) =>
                /\ reads' = reads /\ total' = total /\ sink' = sink
                /\ tries' = tries /\ done' = done
                /\ IF rc' >= 0 \/ errno' = "EINTR"
                   THEN pc' = "loop" /\ brk' = brk
                   ELSE pc' = "xc" /\ brk' = "nanosleep"
          /\ (pc = "loop" /\ pc' # pc /\ done = 0) =>
                pc' \in { "emit", "sample" }
          /\ (pc \in { "emit", "clear" } /\ pc' # pc) =>
                pc' \in { "clear", "sample" } ]_vars

\* two attempts failed, a sleep was interrupted, and the loop is about to
\* make its third attempt
C20_Witness ==
    /\ tool = "seventool" /\ pc = "sample" /\ done = 0
    /\ misses = 2 /\ tries = 2 /\ rc = -1 /\ errno = "EINTR"
    /\ reads = 0 /\ total = 0 /\ sink = << >>


(* ------------------------ the report request --------------------------- *)
\* The test of an iteration: while (!done) in either tool.
IterationTest == pc \in { "inner", "loop" } /\ pc' # pc

\* C21 as claimed: the SIGHUP deliveries that arrived since the last
\* statistics line, however many, make the next test of report (an
\* iteration test that finds done clear) go to one emission.
C21_BurstEmitsOnce ==
    [][ (IterationTest /\ done = 0 /\ unserved = 1) => pc' = "emit" ]_vars

\* C24 as claimed: wherever the SIGHUP was delivered, the request is still
\* there when main() comes to the test of an iteration without having
\* printed a statistics line since the delivery.
C24_NoRequestLost ==
    (pc \in { "inner", "loop" } /\ unserved = 1) => report # 0

(* ----------------------------- the counters ---------------------------- *)
Counters == << opens, tries, reads, total >>

\* C22: in every state total = reads * size in quantistool, and
\* total = 4 * reads with reads <= tries in seventool; no step makes a
\* counter smaller, and the lprintf of the statistics changes none.
C22_CounterInvariant ==
    /\ [] /\ tool = "quantistool" => total = reads * size
          /\ tool = "seventool" => (total = 4 * reads /\ reads <= tries)
    /\ [][ /\ opens' >= opens /\ tries' >= tries
           /\ reads' >= reads /\ total' >= total
           /\ (pc = "emit" /\ pc' # pc) => UNCHANGED Counters ]_vars

\* quantistool -r 4096 has printed a statistics line with two units read
\* over two opens of the device.
C22_Witness ==
    /\ tool = "quantistool" /\ pc = "clear" /\ emitted = 1
    /\ size = 4096 /\ opens = 2 /\ reads = 2 /\ total = 8192

(* ------------------------ the response to done ------------------------- *)
\* The positions of quantistool's main() from the first sigaction on, in
\* the order of the program text with the two loop tests put where they
\* lead once done is set: the inner test to QuantisClose, the outer one to
\* xc = 0.
ShutdownPath ==
    << "sighup", "sigint", "fopen", "open", "emit", "clear", "read1", "read2",
       "write", "inner", "close", "outer", "xc", "cleanup", "exit" >>

Pos(p) == CHOOSE i \in 1..Len(ShutdownPath) : ShutdownPath[i] = p

\* C23: in quantistool, once done is set it stays set and every step of
\* main() goes forward along ShutdownPath, so that main() returns after
\* passing each call at most once (one QuantisOpen, the two
\* QuantisReadHandled of one iteration, one fwrite), and it returns with
\* no handle left open.
C23_BoundedShutdown ==
    [][ (tool = "quantistool" /\ done # 0)
        => /\ done' # 0
           /\ pc' # pc => Pos(pc') > Pos(pc)
           /\ (pc' = "exit" /\ pc' # pc) => (handle # "open" /\ live = 0) ]_vars

\* quantistool has returned because of done, after the one unit it read
\* was written, with its handle released.
C23_Witness ==
    /\ tool = "quantistool" /\ pc = "exit" /\ done # 0 /\ brk = "done"
    /\ opens = 1 /\ reads = 1 /\ Len(produced) = 1 /\ Len(sink) = 1
    /\ handle = "closed" /\ live = 0 /\ xc = 0

=============================================================================
